---- MODULE Spec2Model ----
(***************************************************************************)
(* Comments Feed: the redux store (items, status, error) driven by the     *)
(* fetchComments thunk, the mount effect of CommentsFeed under the two     *)
(* createRoot(...).render calls, the derived views (domains, filtered,     *)
(* grouped) and the expansion state, as written in src/src/main.jsx.       *)
(*                                                                         *)
(* A JavaScript string is modelled as the sequence of its characters, each *)
(* character a one-letter TLA+ string: "a@x" is <<"a", "@", "x">>.         *)
(***************************************************************************)
EXTENDS Integers, Sequences, FiniteSets, TLC

(***************************************************************************)
(* Bounds of the model.                                                    *)
(***************************************************************************)
\* longest item collection a response carries
MaxItems == 2
\* longest text typed into the search box
MaxQueryLen == 3
\* number of toggleDomain / toggleComment clicks in one session
MaxToggles == 3

\* the longest email address of the collections that exercise getDomain
MaxEmailLen == 4

\* the longest body of the collections that exercise the body of a comment
MaxBodyLen == 122

(***************************************************************************)
(* Strings.                                                                *)
(***************************************************************************)
UpperCase ==
    << "A", "B", "C", "D", "E", "F", "G", "H", "I", "J", "K", "L", "M",
       "N", "O", "P", "Q", "R", "S", "T", "U", "V", "W", "X", "Y", "Z" >>

LowerCase ==
    << "a", "b", "c", "d", "e", "f", "g", "h", "i", "j", "k", "l", "m",
       "n", "o", "p", "q", "r", "s", "t", "u", "v", "w", "x", "y", "z" >>

Digits == << "0", "1", "2", "3", "4", "5", "6", "7", "8", "9" >>

\* The characters in use, in ascending order of their UTF-16 code unit.
CodeUnitOrder ==
    << " ", "." >> \o Digits \o << "@" >> \o UpperCase \o << "_" >> \o LowerCase

Range(s) == { s[i] : i \in DOMAIN s }

IndexOf(s, ch) == CHOOSE i \in DOMAIN s : s[i] = ch

Chars == Range(CodeUnitOrder)

CodeUnits == [ch \in Chars |-> IndexOf(CodeUnitOrder, ch)]

CodeUnit(ch) == CodeUnits[ch]

LowerOf ==
    [ch \in Chars |->
        IF ch \in Range(UpperCase) THEN LowerCase[IndexOf(UpperCase, ch)] ELSE ch]

\* String.prototype.toLowerCase, one character
ToLowerChar(ch) == LowerOf[ch]

\* a mutant of toLowerCase: the text is left as it is
ToLowerCaseKeepsCase(s) == s

\* String.prototype.toLowerCase
toLowerCase(s) == [ i \in DOMAIN s |-> ToLowerChar(s[i]) ]

IsWhiteSpace(ch) == ch = " "

DigitChars == Range(Digits)

IsDigit(ch) == ch \in DigitChars

RECURSIVE TrimStart(_)
TrimStart(s) ==
    IF s # << >> /\ IsWhiteSpace(Head(s)) THEN TrimStart(Tail(s)) ELSE s

RECURSIVE TrimEnd(_)
TrimEnd(s) ==
    IF s # << >> /\ IsWhiteSpace(s[Len(s)])
    THEN TrimEnd(SubSeq(s, 1, Len(s) - 1))
    ELSE s

\* a mutant of trim: the text is left as it is
TrimKeepsSpaces(s) == s

\* String.prototype.trim
trim(s) == TrimEnd(TrimStart(s))

\* String.prototype.includes
includes(s, sub) ==
    \E i \in 1 .. (Len(s) - Len(sub) + 1) : SubSeq(s, i, i + Len(sub) - 1) = sub

\* /^\d+$/.test(q)
IsDigitsOnly(q) == q # << >> /\ \A i \in DOMAIN q : IsDigit(q[i])

\* Number.prototype.toString of a non-negative integer
RECURSIVE toString(_)
toString(n) ==
    IF n < 10 THEN << Digits[n + 1] >>
    ELSE toString(n \div 10) \o << Digits[(n % 10) + 1] >>

\* String.prototype.split("@"): the pieces between the separators
RECURSIVE SplitFrom(_, _, _)
SplitFrom(s, sep, piece) ==
    IF s = << >> THEN << piece >>
    ELSE IF Head(s) = sep THEN << piece >> \o SplitFrom(Tail(s), sep, << >>)
    ELSE SplitFrom(Tail(s), sep, Append(piece, Head(s)))

split(s, sep) == SplitFrom(s, sep, << >>)

\* the order of Array.prototype.sort without a comparator: by code units
RECURSIVE StrLess(_, _)
StrLess(a, b) ==
    IF b = << >> THEN FALSE
    ELSE IF a = << >> THEN TRUE
    ELSE IF Head(a) = Head(b) THEN StrLess(Tail(a), Tail(b))
    ELSE CodeUnit(Head(a)) < CodeUnit(Head(b))

\* Array.from(set).sort()
RECURSIVE SortStrings(_)
SortStrings(S) ==
    IF S = {} THEN << >>
    ELSE LET least == CHOOSE x \in S : \A y \in S \ {x} : StrLess(x, y)
         IN  << least >> \o SortStrings(S \ {least})

BoundedSeq(S, n) == UNION { [1 .. k -> S] : k \in 0 .. n }

(***************************************************************************)
(* The literals of the source.                                             *)
(***************************************************************************)
ALL == << "a", "l", "l" >>

UNKNOWN == << "u", "n", "k", "n", "o", "w", "n" >>

HTTP == << "H", "T", "T", "P", " " >>

FailedToFetch ==
    << "F", "a", "i", "l", "e", "d", " ", "t", "o", " ", "f", "e", "t", "c", "h" >>

\* createAsyncThunk's own message on an action rejected with a value
Rejected == << "R", "e", "j", "e", "c", "t", "e", "d" >>

\* getDomain: the piece after the first "@", lowercased
getDomain(email) ==
    LET parts == split(email, "@")
    IN  IF Len(parts) > 1 THEN toLowerCase(parts[2]) ELSE UNKNOWN

(***************************************************************************)
(* Comments.  A Comment is { id, postId, name, email, body }; postId is    *)
(* only displayed and is left out.  The collection is whatever the remote  *)
(* endpoint answers: the code checks neither that ids are distinct nor     *)
(* what an email looks like.                                               *)
(***************************************************************************)
CONSTRUCTOR == << "c", "o", "n", "s", "t", "r", "u", "c", "t", "o", "r" >>

PROTO == << "_", "_", "p", "r", "o", "t", "o", "_", "_" >>

Comments ==
    { [id |-> 1,  name |-> << "A", "b" >>, email |-> << "a", "@", "X" >>,
       body |-> << "b" >>],
      [id |-> 2,  name |-> << "a" >>,      email |-> << "b", "@", "x" >>,
       body |-> << "a", "1", " ", "B" >>],
      [id |-> 1,  name |-> << >>,          email |-> << "b", "@" >> \o ALL,
       body |-> << "1" >>],
      [id |-> 12, name |-> << "c" >>,      email |-> << "c", "@" >> \o CONSTRUCTOR,
       body |-> << >>],
      [id |-> 3,  name |-> << "B", " ", "1" >>, email |-> << "a", "b" >>,
       body |-> << "A" >>] }

\* the item collections the views are derived from: the comments of a
\* response, each listed once, in any order
Payloads ==
    { p \in BoundedSeq(Comments, MaxItems) :
          \A i, j \in DOMAIN p : p[i] = p[j] => i = j }

\* the item collections a response carries while the whole application is
\* explored: two comments, of two domains
Responses == BoundedSeq({ c \in Comments : c.id \in 2 .. 9 }, MaxItems)

\* the characters typed into the search box
QueryChars == { "A", "1", " " }

Queries == BoundedSeq(QueryChars, MaxQueryLen)

\* the texts typed while the whole application is explored
ShortQueries == { q \in Queries : Len(q) <= 1 }

(***************************************************************************)
(* Plain objects used as maps ({} at lines 86, 87 and 122): a property     *)
(* that is not an own property is looked up on Object.prototype.           *)
(***************************************************************************)
\* names Object.prototype defines, each with a truthy value that is no array
ObjectPrototypeKeys ==
    { CONSTRUCTOR, PROTO,
      << "t", "o", "S", "t", "r", "i", "n", "g" >>,
      << "v", "a", "l", "u", "e", "O", "f" >> }

\* !!obj[key] for a map whose own values are booleans, keyed by a string
Truthy(obj, key) ==
    IF key \in DOMAIN obj THEN obj[key] ELSE key \in ObjectPrototypeKeys

\* !!obj[id] for a map keyed by a number: no such name on Object.prototype
TruthyId(obj, id) == IF id \in DOMAIN obj THEN obj[id] ELSE FALSE

(***************************************************************************)
(* The derived views of CommentsFeed.                                      *)
(***************************************************************************)
\* const domains = useMemo(...)
DomainsOf(its) ==
    << ALL >> \o SortStrings({ getDomain(its[i].email) : i \in DOMAIN its })

\* c.id.toString() === q
IdMatches(c, q) == toString(c.id) = q

\* the text search of lines 112-116
TextMatches(c, q) ==
    \/ includes(toLowerCase(c.name), q)
    \/ includes(toLowerCase(c.email), q)
    \/ includes(toLowerCase(c.body), q)

\* a mutant of the callback: the exact ID match is left out
KeepsByTextOnly(c, q, df) ==
    IF df # ALL /\ getDomain(c.email) # df THEN FALSE
    ELSE IF q = << >> THEN TRUE
    ELSE TextMatches(c, q)

\* the callback of items.filter, q being the trimmed and lowercased query
Keeps(c, q, df) ==
    IF df # ALL /\ getDomain(c.email) # df THEN FALSE
    ELSE IF IsDigitsOnly(q) THEN IdMatches(c, q)
    ELSE IF q = << >> THEN TRUE
    ELSE TextMatches(c, q)

\* items.filter(...) of lines 101-117, q being the trimmed and lowercased query
FilterBy(its, q, df) ==
    LET Test(c) == Keeps(c, q, df)
    IN  SelectSeq(its, Test)

\* const filtered = useMemo(...)
Filter(its, qry, df) == FilterBy(its, toLowerCase(trim(qry)), df)

\* map[d] of line 125/126: an own array, an inherited value, or undefined
\* a mutant of the callback: the comment is put in front of its group
AddsInFront(acc, c, d) ==
    IF d \in DOMAIN acc.map
    THEN [acc EXCEPT !.map[d] = << c >> \o @]
    ELSE IF d \in ObjectPrototypeKeys
    THEN [acc EXCEPT !.threw = TRUE]
    ELSE [acc EXCEPT !.map =
             [k \in DOMAIN acc.map \cup {d} |->
                 IF k = d THEN << c >> ELSE acc.map[k]]]

AddTo(acc, c, d) ==
    IF d \in DOMAIN acc.map
    THEN [acc EXCEPT !.map[d] = Append(@, c)]
    ELSE IF d \in ObjectPrototypeKeys
    THEN [acc EXCEPT !.threw = TRUE]
    ELSE [acc EXCEPT !.map =
             [k \in DOMAIN acc.map \cup {d} |->
                 IF k = d THEN << c >> ELSE acc.map[k]]]

\* filtered.forEach(...): the callback on each comment, up to the one it
\* throws on
RECURSIVE GroupFrom(_, _)
GroupFrom(acc, rest) ==
    IF rest = << >> \/ acc.threw THEN acc
    ELSE GroupFrom(AddTo(acc, Head(rest), getDomain(Head(rest).email)), Tail(rest))

EmptyMap == [k \in {} |-> << >>]

\* const grouped = useMemo(...): threw when map[d].push is not a function
GroupByDomain(flt) == GroupFrom([threw |-> FALSE, map |-> EmptyMap], flt)

\* a mutant of the updater of setExpandedDomains: the key is set, never flipped
SetsDomainKey(s, d) ==
    [k \in DOMAIN s \cup {d} |-> IF k = d THEN TRUE ELSE s[k]]

\* a mutant of the updater of setExpandedDomains: the spread of s is left out
KeepsOnlyDomainKey(s, d) == [k \in {d} |-> ~Truthy(s, d)]

\* (s) => ({ ...s, [d]: !s[d] })
ToggledDomains(s, d) ==
    [k \in DOMAIN s \cup {d} |-> IF k = d THEN ~Truthy(s, d) ELSE s[k]]

\* (s) => ({ ...s, [id]: !s[id] })
ToggledComments(s, id) ==
    [k \in DOMAIN s \cup {id} |-> IF k = id THEN ~TruthyId(s, id) ELSE s[k]]

(***************************************************************************)
(* The fetchComments thunk.                                                *)
(***************************************************************************)
NULL == [type |-> "null"]

Str(chars) == [type |-> "string", value |-> chars]

LoadFailed == << "L", "o", "a", "d", " ", "f", "a", "i", "l", "e", "d" >>

UnexpectedToken == << "U", "n", "e", "x", "p", "e", "c", "t", "e", "d" >>

\* what the network does with the one GET: fetch throws (with or without a
\* message), or a response arrives whose body parses (to one of datas) or
\* does not
NetOutcomes(datas) ==
    { [kind |-> "throws", message |-> m] : m \in { << >>, LoadFailed } }
    \cup { [kind |-> "response", status |-> st, parses |-> FALSE, data |-> << >>] :
               st \in { 200, 500 } }
    \cup { [kind |-> "response", status |-> 200, parses |-> TRUE, data |-> d] :
               d \in datas }

\* res.ok
Ok(st) == st \in 200 .. 299

\* err.message || "Failed to fetch"
MessageOrFallback(m) == IF m # << >> THEN m ELSE FailedToFetch

\* the payload creator of lines 22-31: the action the thunk dispatches last
PayloadCreator(o) ==
    IF o.kind = "throws"
    THEN [type |-> "rejected", payload |-> MessageOrFallback(o.message)]
    ELSE IF ~Ok(o.status)
    THEN [type |-> "rejected",
          payload |-> MessageOrFallback(HTTP \o toString(o.status))]
    ELSE IF ~o.parses
    THEN [type |-> "rejected", payload |-> MessageOrFallback(UnexpectedToken)]
    ELSE [type |-> "fulfilled", payload |-> o.data]

(***************************************************************************)
(* State.                                                                  *)
(***************************************************************************)
\* the two createRoot(...).render calls: line 7 (StrictMode) and line 292
Roots == { "strict", "standalone" }

\* the CommentsFeed whose controls are driven; the other one holds its own
\* untouched copies of the local state and shares only the store
Observed == "standalone"

Statuses == { "idle", "loading", "succeeded", "failed" }

VARIABLES
    items, status, error,   \* store.getState().comments
    inflight,               \* thunks awaiting the network
    rendered,               \* per root: "unmounted", "crashed", or the status its last render read
    effects,                \* per root: runs of the mount effect (line 89) still to come
    query, domainFilter, expandedDomains, expandedCommentIds,   \* useState, lines 84-87
    domains, filtered, grouped,                                 \* useMemo, lines 94-129
    toggles                 \* clicks on groups and comments so far

vars ==
    << items, status, error, inflight, rendered, effects,
       query, domainFilter, expandedDomains, expandedCommentIds,
       domains, filtered, grouped, toggles >>

storeVars == << items, status, error >>

localVars == << query, domainFilter, expandedDomains, expandedCommentIds >>

memoVars == << domains, filtered, grouped >>

Init ==
    /\ items = << >>
    /\ status = "idle"
    /\ error = NULL
    /\ inflight = 0
    /\ rendered = [r \in Roots |-> "unmounted"]
    /\ effects = [r \in Roots |-> 0]
    /\ query = << >>
    /\ domainFilter = ALL
    /\ expandedDomains = << >>
    /\ expandedCommentIds = << >>
    /\ domains = << ALL >>
    /\ filtered = << >>
    /\ grouped = [threw |-> FALSE, map |-> EmptyMap]
    /\ toggles = 0

Live(r) == rendered[r] \in Statuses

\* The effects of a commit run together, in one task: React runs them
\* before it renders again, and no response or click is handled in between.
EffectsFlushed == \A o \in Roots : effects[o] = 0

(***************************************************************************)
(* Rendering CommentsFeed (lines 80-135).  useSelector and useState        *)
(* re-render a mounted CommentsFeed before the next event is handled, so   *)
(* the re-render is part of the step that changes the store or the local   *)
(* state.  A render that throws unmounts its root: there is no error       *)
(* boundary.                                                               *)
(***************************************************************************)
\* the three memos of a render over its, qry and df
View(its, qry, df) ==
    LET flt == Filter(its, qry, df)
    IN  [domains |-> DomainsOf(its), filtered |-> flt, grouped |-> GroupByDomain(flt)]

\* whether the render of root r throws; only the observed CommentsFeed has
\* had its search box and select touched, and the memos of the other one
\* are computed again only when the items change
Throws(r, its, qry, df) ==
    IF r = Observed THEN View(its, qry, df).grouped.threw
    ELSE its # items /\ GroupByDomain(Filter(its, << >>, ALL)).threw

\* the mounted roots render again over its, st, qry and df
Rerender(its, st, qry, df) ==
    \E v \in { View(its, qry, df) } :
        /\ rendered' = [r \in Roots |->
               IF ~Live(r) THEN rendered[r]
               ELSE IF r = Observed /\ v.grouped.threw THEN "crashed"
               ELSE IF r # Observed /\ Throws(r, its, qry, df) THEN "crashed"
               ELSE st]
        /\ IF Live(Observed) /\ ~v.grouped.threw
           THEN /\ domains' = v.domains
                /\ filtered' = v.filtered
                /\ grouped' = v.grouped
           ELSE UNCHANGED memoVars

\* a mutant of the mount: the effect of lines 89-91 is never run
EffectNeverRuns(r) == { 0 }

\* runs of the mount effects: under StrictMode once in a production build and
\* twice (mount, unmount, mount) in a development build
EffectRunsOnMount(r) == IF r = "strict" THEN { 1, 2 } ELSE { 1 }

\* root.render(...): the first render of CommentsFeed under root r
Mount(r) ==
    /\ EffectsFlushed
    /\ rendered[r] = "unmounted"
    /\ IF View(items, IF r = Observed THEN query ELSE << >>,
                    IF r = Observed THEN domainFilter ELSE ALL).grouped.threw
       THEN /\ rendered' = [rendered EXCEPT ![r] = "crashed"]
            /\ UNCHANGED << effects, memoVars >>
       ELSE /\ rendered' = [rendered EXCEPT ![r] = status]
            /\ \E runs \in EffectRunsOnMount(r) :
                   effects' = [effects EXCEPT ![r] = runs]
            /\ IF r = Observed
               THEN LET v == View(items, query, domainFilter)
                    IN  /\ domains' = v.domains
                        /\ filtered' = v.filtered
                        /\ grouped' = v.grouped
               ELSE UNCHANGED memoVars
    /\ UNCHANGED << storeVars, inflight, localVars, toggles >>

MountStrict == Mount("strict")

MountStandalone == Mount("standalone")

(***************************************************************************)
(* useEffect(() => { if (status === "idle") dispatch(fetchComments()) })   *)
(* with the status of the render that created the effect.  The dispatch    *)
(* runs the pending reducer (lines 44-47) at once and starts the request.  *)
(* The roots render again once their effects have run.                     *)
(***************************************************************************)
RunEffect(r) ==
    /\ effects[r] > 0
    /\ effects' = [effects EXCEPT ![r] = @ - 1]
    /\ IF rendered[r] = "idle"
       THEN /\ status' = "loading"
            /\ error' = NULL
            /\ inflight' = inflight + 1
       ELSE UNCHANGED << status, error, inflight >>
    /\ rendered' = [o \in Roots |->
           IF Live(o) /\ effects'[o] = 0 THEN status' ELSE rendered[o]]
    /\ UNCHANGED << items, localVars, memoVars, toggles >>

EffectStrict == RunEffect("strict")

EffectStandalone == RunEffect("standalone")

\* the request ends well: fetchComments.fulfilled (lines 48-51)
FetchFulfilledWith(datas) ==
    /\ inflight > 0
    /\ EffectsFlushed
    /\ \E o \in NetOutcomes(datas) :
           LET a == PayloadCreator(o)
           IN  /\ a.type = "fulfilled"
               /\ status' = "succeeded"
               /\ items' = a.payload
               /\ Rerender(a.payload, "succeeded", query, domainFilter)
    /\ inflight' = inflight - 1
    /\ UNCHANGED << error, effects, localVars, toggles >>

FetchFulfilled == FetchFulfilledWith(Responses)

\* the request ends badly: fetchComments.rejected (lines 52-55)
FetchRejected ==
    /\ inflight > 0
    /\ EffectsFlushed
    /\ \E o \in NetOutcomes(Responses) :
           LET a == PayloadCreator(o)
           IN  /\ a.type = "rejected"
               /\ status' = "failed"
               /\ error' = Str(IF a.payload # << >> THEN a.payload ELSE Rejected)
    /\ inflight' = inflight - 1
    /\ rendered' = [r \in Roots |-> IF Live(r) THEN "failed" ELSE rendered[r]]
    /\ UNCHANGED << items, effects, localVars, memoVars, toggles >>

(***************************************************************************)
(* The controls of the observed CommentsFeed, as its last render drew them.*)
(***************************************************************************)
Interactive == Live(Observed) /\ EffectsFlushed

\* a mutant of the search box: typing collapses the groups
SetQueryCollapsing(texts) ==
    /\ Interactive
    /\ \E v \in texts :
           /\ v # query
           /\ query' = v
           /\ Rerender(items, status, v, domainFilter)
    /\ expandedDomains' = << >>
    /\ UNCHANGED << storeVars, inflight, effects, domainFilter,
                    expandedCommentIds, toggles >>

\* onChange of the search box, line 149
SetQueryFrom(texts) ==
    /\ Interactive
    /\ \E v \in texts :
           /\ v # query
           /\ query' = v
           /\ Rerender(items, status, v, domainFilter)
    /\ UNCHANGED << storeVars, inflight, effects, domainFilter,
                    expandedDomains, expandedCommentIds, toggles >>

SetQuery == SetQueryFrom(ShortQueries)

\* onChange of the select, line 157: one of the options of lines 160-164
SetDomainFilter ==
    /\ Interactive
    /\ \E i \in DOMAIN domains :
           /\ domains[i] # domainFilter
           /\ domainFilter' = domains[i]
           /\ Rerender(items, status, query, domains[i])
    /\ UNCHANGED << storeVars, inflight, effects, query,
                    expandedDomains, expandedCommentIds, toggles >>

\* the groups drawn: lines 195-210
GroupsShown ==
    IF rendered[Observed] = "succeeded" THEN DOMAIN grouped.map ELSE {}

\* the keys of the groups in the order they are drawn: lines 197-198
GroupsPresented == SortStrings(GroupsShown)

\* the comments drawn: those of the expanded groups, lines 240-266
CommentsShown ==
    UNION { Range(grouped.map[d]) :
                d \in { g \in GroupsShown : Truthy(expandedDomains, g) } }

\* body.length > 120 of line 274
TruncateAt == 120

\* the ellipsis marker of line 274
Ellipsis == << ".", ".", "." >>

\* a mutant of TruncatedBody: a body of 120 characters is cut as well
TruncatesFrom120(body) ==
    IF Len(body) >= TruncateAt THEN SubSeq(body, 1, TruncateAt) \o Ellipsis ELSE body

\* the text of TruncatedBody, lines 273-281: body.slice(0, 120) + "..."
TruncatedBody(body) ==
    IF Len(body) > TruncateAt THEN SubSeq(body, 1, TruncateAt) \o Ellipsis ELSE body

\* the text of FullBody, lines 283-285
FullBody(body) == body

\* the body drawn for comment c of an expanded group, lines 258-264
BodyShown(c) ==
    IF TruthyId(expandedCommentIds, c.id) THEN FullBody(c.body)
    ELSE TruncatedBody(c.body)

\* onToggle of a DomainGroup, lines 131-132 and 205
ToggleDomain(d) ==
    /\ Interactive
    /\ toggles < MaxToggles
    /\ d \in GroupsShown
    /\ expandedDomains' = ToggledDomains(expandedDomains, d)
    /\ toggles' = toggles + 1
    /\ UNCHANGED << storeVars, inflight, rendered, effects, query,
                    domainFilter, expandedCommentIds, memoVars >>

\* onClick of an article, lines 134-135 and 245
ToggleComment(id) ==
    /\ Interactive
    /\ toggles < MaxToggles
    /\ id \in { c.id : c \in CommentsShown }
    /\ expandedCommentIds' = ToggledComments(expandedCommentIds, id)
    /\ toggles' = toggles + 1
    /\ UNCHANGED << storeVars, inflight, rendered, effects, query,
                    domainFilter, expandedDomains, memoVars >>

DomainKeys == { getDomain(c.email) : c \in Comments }

CommentIds == { c.id : c \in Comments }

ToggleSomeDomain == \E d \in DomainKeys : ToggleDomain(d)

ToggleSomeComment == \E id \in CommentIds : ToggleComment(id)

Next ==
    \/ MountStrict
    \/ MountStandalone
    \/ EffectStrict
    \/ EffectStandalone
    \/ FetchFulfilled
    \/ FetchRejected
    \/ SetQuery
    \/ SetDomainFilter
    \/ ToggleSomeDomain
    \/ ToggleSomeComment

\* the whole application
Spec == Init /\ [][Next]_vars

\* The whole application with its scheduling: both render calls of main.jsx
\* are made when the module is loaded, React runs the effects of a commit
\* once the commit is done, and the request is taken to end (the fetch of
\* line 24 has no timeout of its own).
Fairness ==
    /\ WF_vars(MountStrict)
    /\ WF_vars(MountStandalone)
    /\ WF_vars(EffectStrict)
    /\ WF_vars(EffectStandalone)
    /\ WF_vars(FetchFulfilled \/ FetchRejected)

\* the steps that reach the store, and the typing and selecting between them;
\* the clicks on groups and comments are not taken here
NextLive ==
    \/ MountStrict
    \/ MountStandalone
    \/ EffectStrict
    \/ EffectStandalone
    \/ FetchFulfilled
    \/ FetchRejected
    \/ SetQuery
    \/ SetDomainFilter

SpecLive == Init /\ [][NextLive]_vars /\ Fairness

(***************************************************************************)
(* The derived views and the expansion state over every collection: both   *)
(* roots have drawn the loading panel and the one request is in flight.    *)
(***************************************************************************)
Loading(q) ==
    /\ items = << >>
    /\ status = "loading"
    /\ error = NULL
    /\ inflight = 1
    /\ rendered = [r \in Roots |-> "loading"]
    /\ effects = [r \in Roots |-> 0]
    /\ query = q
    /\ domainFilter = ALL
    /\ expandedDomains = << >>
    /\ expandedCommentIds = << >>
    /\ domains = << ALL >>
    /\ filtered = << >>
    /\ grouped = [threw |-> FALSE, map |-> EmptyMap]
    /\ toggles = 0

\* the response carries any collection
FetchFulfilledAny == FetchFulfilledWith(Payloads)

\* any text has been typed while the request is in flight
InitView == \E q \in Queries : Loading(q)

NextView == FetchFulfilledAny \/ SetDomainFilter

\* the derived views over every collection, text and offered domain
SpecView == InitView /\ [][NextView]_vars

InitExpand == Loading(<< >>)

NextExpand == FetchFulfilledAny \/ ToggleSomeDomain \/ ToggleSomeComment

\* expanding and collapsing over every collection
SpecExpand == InitExpand /\ [][NextExpand]_vars

(***************************************************************************)
(* getDomain over every email address: the response carries one comment,   *)
(* and the options of the select show the domain derived from its email.   *)
(***************************************************************************)
EmailChars == { "a", "B", "@" }

Emails == BoundedSeq(EmailChars, MaxEmailLen)

EmailPayloads ==
    { << [id |-> 1, name |-> << >>, email |-> e, body |-> << >>] >> : e \in Emails }

FetchFulfilledEmail == FetchFulfilledWith(EmailPayloads)

NextDomain == FetchFulfilledEmail \/ SetDomainFilter

SpecDomain == InitExpand /\ [][NextDomain]_vars

(***************************************************************************)
(* The body of a comment over every length around the cut: the response    *)
(* carries one comment, its group is expanded and the comment is clicked.  *)
(***************************************************************************)
Body(n) ==
    [i \in 1 .. n |-> IF i % 7 = 0 THEN " " ELSE IF i % 2 = 0 THEN "B" ELSE "a"]

BodyPayloads ==
    { << [id |-> 1, name |-> << >>, email |-> << "a", "@", "x" >>, body |-> Body(n)] >> :
          n \in 0 .. MaxBodyLen }

FetchFulfilledBody == FetchFulfilledWith(BodyPayloads)

NextBody == FetchFulfilledBody \/ ToggleSomeDomain \/ ToggleSomeComment

SpecBody == InitExpand /\ [][NextBody]_vars

(***************************************************************************)
(* The store and the fetch.                                                *)
(***************************************************************************)
StatusSteps ==
    { << "idle", "loading" >>, << "loading", "succeeded" >>, << "loading", "failed" >> }

\* C1: the status changes only along idle -> loading -> succeeded or
\* idle -> loading -> failed; once succeeded or failed it never changes again.
C1_StatusOrder ==
    [][status' # status => << status, status' >> \in StatusSteps]_vars

\* C2: fetchComments is dispatched at most once, so at most one request is
\* ever in flight.
C2_AtMostOneFetch == inflight <= 1

\* C3: items become non-empty only with the status succeeded, and an error is
\* set only while the status is failed (never with loading or succeeded).
C3_ItemsAndError ==
    [][ /\ (items' # << >> /\ items = << >>) => status' = "succeeded"
        /\ error' # NULL => status' = "failed" ]_vars

\* a step of the rejected reducer
RejectedStep == inflight' = inflight - 1 /\ status' = "failed"

\* C4: a failed fetch leaves the store in status failed with a non-empty error
\* string, which names the HTTP status code of a non-2xx response, and the
\* items empty.
C4_FailureIsRecorded ==
    [][RejectedStep =>
          /\ error'.type = "string"
          /\ error'.value # << >>
          /\ \/ \E o \in NetOutcomes(Responses) :
                    /\ o.kind = "response" /\ ~Ok(o.status)
                    /\ includes(error'.value, toString(o.status))
             \/ \E o \in NetOutcomes(Responses) :
                    /\ o.kind = "throws" \/ Ok(o.status)
                    /\ PayloadCreator(o).type = "rejected"
                    /\ error'.value = PayloadCreator(o).payload
          /\ items' = << >>]_vars

(***************************************************************************)
(* The derived views.  The notions the statements use are written here     *)
(* without trim, toLowerCase and includes.                                 *)
(***************************************************************************)
Has(seq, x) == \E j \in DOMAIN seq : seq[j] = x

Count(seq, x) == Cardinality({ j \in DOMAIN seq : seq[j] = x })

\* the contiguous pieces of a text
SubTexts(s) == { SubSeq(s, i, j) : i \in 1 .. Len(s) + 1, j \in 0 .. Len(s) }

\* the text without the white space around it: from its first to its last
\* character that is not a space
Stripped(s) ==
    IF \A i \in DOMAIN s : s[i] = " " THEN << >>
    ELSE LET first == CHOOSE i \in DOMAIN s :
                          s[i] # " " /\ \A k \in 1 .. i - 1 : s[k] = " "
             last  == CHOOSE j \in DOMAIN s :
                          s[j] # " " /\ \A k \in j + 1 .. Len(s) : s[k] = " "
         IN  SubSeq(s, first, last)

\* a letter and the same letter in the other case, both ways round
CasePairs ==
    UNION { { << UpperCase[k], LowerCase[k] >>, << LowerCase[k], UpperCase[k] >> } :
                k \in DOMAIN UpperCase }

SameLetter(a, b) == a = b \/ << a, b >> \in CasePairs

SameIgnoringCase(s, t) ==
    Len(s) = Len(t) /\ \A i \in DOMAIN s : SameLetter(s[i], t[i])

ContainsIgnoringCase(text, q) ==
    \E i \in 1 .. Len(text) - Len(q) + 1 :
        SameIgnoringCase(SubSeq(text, i, i + Len(q) - 1), q)

\* a character in its letter cases
LetterCases(ch) == { ch } \cup { p[2] : p \in { r \in CasePairs : r[1] = ch } }

\* the same text in every letter case
CaseVariants(s) ==
    { t \in [DOMAIN s -> UNION { LetterCases(s[i]) : i \in DOMAIN s }] :
          \A i \in DOMAIN s : t[i] \in LetterCases(s[i]) }

OnlyDigits(q) == q # << >> /\ \A i \in DOMAIN q : q[i] \in DigitChars

\* the condition of the filter on comment c, for the text q and the domain df
ShouldKeep(c, q, df) ==
    /\ df = ALL \/ getDomain(c.email) = df
    /\ IF OnlyDigits(q) THEN toString(c.id) = q
       ELSE IF q # << >>
       THEN \/ ContainsIgnoringCase(c.name, q)
            \/ ContainsIgnoringCase(c.email, q)
            \/ ContainsIgnoringCase(c.body, q)
       ELSE TRUE

\* C5 as stated: the filtered list holds c iff c passes the domain filter and
\* the query, taken as the user entered it, matches (exact id for a query of
\* digits, case-insensitive substring of name, email or body otherwise).
C5_FilterOnTextAsEntered ==
    Live(Observed) =>
        \A i \in DOMAIN items :
            Has(filtered, items[i]) <=> ShouldKeep(items[i], query, domainFilter)

\* C5 as amended: the same, the query being the entered text without the
\* white space around it.
C5_FilterOnTrimmedText ==
    Live(Observed) =>
        \A i \in DOMAIN items :
            Has(filtered, items[i])
                <=> ShouldKeep(items[i], Stripped(query), domainFilter)

\* C5: a query of digits between spaces has selected some of the items by id
C5_Witness ==
    /\ Live(Observed)
    /\ Stripped(query) # query
    /\ OnlyDigits(Stripped(query))
    /\ filtered # << >>
    /\ Len(filtered) < Len(items)

DistinctIds(its) == \A i, j \in DOMAIN its : its[i].id = its[j].id => i = j

\* C6 as stated: for a query of digits the filtered list has at most one
\* item, whose id written in decimal is the query.
C6_AtMostOneById ==
    (Live(Observed) /\ OnlyDigits(query)) =>
        /\ Len(filtered) <= 1
        /\ \A j \in DOMAIN filtered : toString(filtered[j].id) = query

\* C6 as amended: for a query of digits every item of the filtered list has
\* the id the query writes, and the list has at most one item when the ids of
\* the collection are distinct.
C6_OnlyTheId ==
    (Live(Observed) /\ OnlyDigits(query)) =>
        /\ \A j \in DOMAIN filtered : toString(filtered[j].id) = query
        /\ DistinctIds(items) => Len(filtered) <= 1

\* C6: a query of digits has selected one of two items
C6_Witness ==
    /\ Live(Observed)
    /\ OnlyDigits(query)
    /\ Len(items) = 2
    /\ Len(filtered) = 1

\* the letter case of the query drawn does not matter
CaseIsIgnored ==
    \A v \in CaseVariants(query) : Filter(items, v, domainFilter) = filtered

\* the query drawn selects no item that its piece q does not select
NarrowsFrom(q) == Range(filtered) \subseteq Range(Filter(items, q, domainFilter))

\* C7 as stated: for queries q, q' that are non-empty and not digit-only as
\* entered, q a piece of q', the filter ignores the letter case and the
\* result for q' is a subset of the result for q.
C7_MonotoneAsEntered ==
    (Live(Observed) /\ query # << >> /\ ~OnlyDigits(query)) =>
        /\ CaseIsIgnored
        /\ \A q \in SubTexts(query) : (q # << >> /\ ~OnlyDigits(q)) => NarrowsFrom(q)

\* C7 as amended: the same for queries that are non-empty as entered and not
\* digit-only once the white space around them is removed.
C7_MonotoneOnceTrimmed ==
    (Live(Observed) /\ query # << >> /\ ~OnlyDigits(Stripped(query))) =>
        /\ CaseIsIgnored
        /\ \A q \in SubTexts(query) :
               (q # << >> /\ ~OnlyDigits(Stripped(q))) => NarrowsFrom(q)

\* C7: the query drawn selects some items, and fewer than a piece of it does
C7_Witness ==
    /\ Live(Observed)
    /\ filtered # << >>
    /\ ~OnlyDigits(Stripped(query))
    /\ \E q \in SubTexts(query) :
           /\ q # << >> /\ ~OnlyDigits(Stripped(q))
           /\ Range(filtered) # Range(Filter(items, q, domainFilter))

\* C8: with the query empty and the domain filter "all" the groups partition
\* the items: each item is in the group of its domain, as often as it is in
\* the collection, and in no other group.
C8_GroupsPartition ==
    (status = "succeeded" /\ query = << >> /\ domainFilter = ALL) =>
        /\ Live(Observed)
        /\ \A i \in DOMAIN items :
               /\ getDomain(items[i].email) \in DOMAIN grouped.map
               /\ \A d \in DOMAIN grouped.map :
                      Count(grouped.map[d], items[i]) =
                          IF d = getDomain(items[i].email)
                          THEN Count(items, items[i]) ELSE 0
        /\ \A d \in DOMAIN grouped.map :
               \A j \in DOMAIN grouped.map[d] : Has(items, grouped.map[d][j])

\* C9: the options are "all" followed by the sorted, distinct, lowercased
\* domains of the items; "all" is there exactly once, as the first entry.
C9_DomainOptions ==
    Live(Observed) =>
        LET ds == { getDomain(items[i].email) : i \in DOMAIN items }
            rest == Tail(domains)
        IN  /\ domains[1] = ALL
            /\ Count(domains, ALL) = 1
            /\ Range(rest) = ds
            /\ \A i, j \in DOMAIN rest : i < j => StrLess(rest[i], rest[j])
            /\ \A d \in Range(rest) : \A i \in DOMAIN d : d[i] \notin Range(UpperCase)

(***************************************************************************)
(* The expansion state.                                                    *)
(***************************************************************************)
\* C10: a key that is absent counts as collapsed and its first toggle expands
\* it, and a second toggle of the key just toggled gives back the value from
\* before the first, for the domain keys and for the comment ids.
C10_ToggleTwice ==
    [][ /\ \A d \in DomainKeys :
               ToggleDomain(d) =>
                   /\ d \notin DOMAIN expandedDomains =>
                          ~Truthy(expandedDomains, d) /\ Truthy(expandedDomains', d)
                   /\ Truthy(ToggledDomains(expandedDomains', d), d)
                          = Truthy(expandedDomains, d)
        /\ \A id \in CommentIds :
               ToggleComment(id) =>
                   /\ id \notin DOMAIN expandedCommentIds =>
                          /\ ~TruthyId(expandedCommentIds, id)
                          /\ TruthyId(expandedCommentIds', id)
                   /\ TruthyId(ToggledComments(expandedCommentIds', id), id)
                          = TruthyId(expandedCommentIds, id) ]_vars

\* C10: a group has been expanded and collapsed again, a comment expanded
C10_Witness ==
    /\ \E d \in DOMAIN expandedDomains : ~expandedDomains[d]
    /\ \E id \in DOMAIN expandedCommentIds : expandedCommentIds[id]

\* the mapping after differs from the mapping before at key k at most
OnlyAt(before, after, k) ==
    /\ DOMAIN before \subseteq DOMAIN after
    /\ DOMAIN after \subseteq DOMAIN before \cup {k}
    /\ \A j \in DOMAIN before \ {k} : after[j] = before[j]

\* C11: a toggle changes one entry of one expansion mapping: the other keys
\* of that mapping, the other mapping, the query, the domain filter and the
\* store are unchanged.
C11_ToggleFrame ==
    [][ toggles' # toggles =>
          /\ \/ /\ \E d \in DomainKeys : OnlyAt(expandedDomains, expandedDomains', d)
                /\ expandedCommentIds' = expandedCommentIds
             \/ /\ \E id \in CommentIds :
                       OnlyAt(expandedCommentIds, expandedCommentIds', id)
                /\ expandedDomains' = expandedDomains
          /\ UNCHANGED << query, domainFilter, items, status, error >> ]_vars

\* C11: a second group and a comment have been toggled, with a query typed
C11_Witness ==
    /\ Cardinality(DOMAIN expandedDomains) >= 2
    /\ expandedCommentIds # << >>
    /\ query # << >>

\* C12: when the request ends, a session whose status is idle or loading
\* reaches succeeded, or failed with the error recorded; the store does not
\* stay in idle or loading for ever.
C12_Settles ==
    (status \in { "idle", "loading" })
        ~> (status = "succeeded" \/ (status = "failed" /\ error.type = "string"))

\* C12: every request has ended and the items are in the store
C12_Witness == status = "succeeded" /\ items # << >> /\ inflight = 0

\* a request ends well in this step
FulfilledStep == inflight' = inflight - 1 /\ status' = "succeeded"

\* C13: when a fetch succeeds the items become the fetched payload as it is
\* and the status becomes succeeded; once a fetch has succeeded the items
\* never change again.
C13_ItemsFixedOnceFetched ==
    [][ /\ FulfilledStep =>
              \E o \in NetOutcomes(Responses) :
                  /\ PayloadCreator(o).type = "fulfilled"
                  /\ items' = PayloadCreator(o).payload
        /\ (status = "succeeded" \/ items # << >>) => items' = items ]_vars

\* C14: both expansion mappings are empty when the session starts, and a
\* step that is not a click on a group or a comment (the fetch starting or
\* ending, typing, selecting a domain) leaves both as they are.
C14_OnlyTogglesExpand ==
    /\ expandedDomains = << >> /\ expandedCommentIds = << >>
    /\ [][ toggles' = toggles =>
              UNCHANGED << expandedDomains, expandedCommentIds >> ]_vars

\* C14: a group is expanded while the filters keep it out of view
C14_Witness ==
    /\ Live(Observed)
    /\ status = "succeeded"
    /\ \E d \in DOMAIN expandedDomains : expandedDomains[d] /\ d \notin GroupsShown

\* the text in lower case
Lowered(s) ==
    [i \in DOMAIN s |->
        IF \E k \in DOMAIN UpperCase : UpperCase[k] = s[i]
        THEN LowerCase[CHOOSE k \in DOMAIN UpperCase : UpperCase[k] = s[i]]
        ELSE s[i]]

\* the places of the "@" in an email address
AtSigns(e) == { p \in DOMAIN e : e[p] = "@" }

\* C15: the domain derived from an email is "unknown" exactly when the email
\* has no "@", and otherwise the whole text after the "@", in lower case;
\* with several "@" the text after one of them, up to the end of the email.
C15_DomainIsTextAfterAt ==
    (Live(Observed) /\ status = "succeeded") =>
        LET e == items[1].email
        IN  /\ Len(domains) = 2
            /\ domains[2] = UNKNOWN <=> AtSigns(e) = {}
            /\ AtSigns(e) # {} =>
                   \E p \in AtSigns(e) : domains[2] = Lowered(SubSeq(e, p + 1, Len(e)))

\* text a comes before text b: at the first place where they differ a has
\* the smaller code unit, or a ends there
ComesBefore(a, b) ==
    \E k \in 1 .. Len(b) :
        /\ \A j \in 1 .. k - 1 : j <= Len(a) /\ a[j] = b[j]
        /\ k > Len(a) \/ (k <= Len(a) /\ CodeUnits[a[k]] < CodeUnits[b[k]])

\* C16: each group holds the items of the filtered list that have its
\* domain, in the order of the filtered list; the groups are drawn in
\* ascending order of their keys, and no group drawn is empty.
C16_GroupsInOrder ==
    Live(Observed) =>
        /\ \A d \in GroupsShown :
               /\ grouped.map[d] # << >>
               /\ LET OfDomain(c) == getDomain(c.email) = d
                  IN  grouped.map[d] = SelectSeq(filtered, OfDomain)
        /\ Range(GroupsPresented) = GroupsShown
        /\ \A i, j \in DOMAIN GroupsPresented :
               i < j => ComesBefore(GroupsPresented[i], GroupsPresented[j])

\* C16: a query is typed and a group of two comments is drawn
C16_Witness ==
    /\ Live(Observed)
    /\ query # << >>
    /\ \E d \in GroupsShown : Len(grouped.map[d]) = 2

\* the collapsed view of a body: the body itself up to 120 characters, and
\* beyond that its first 120 characters with three dots after them
IsCollapsedViewOf(text, body) ==
    IF Len(body) <= 120 THEN text = body
    ELSE /\ Len(text) = 123
         /\ \A i \in 1 .. 120 : text[i] = body[i]
         /\ \A i \in 121 .. 123 : text[i] = "."

\* C17: a comment that has not been clicked, or has been clicked twice,
\* shows the collapsed view of its body (the body unchanged up to 120
\* characters, else its first 120 characters and the ellipsis marker); a
\* comment clicked once shows its full body as it is.
C17_BodyViews ==
    \A c \in CommentsShown :
        IF c.id \in DOMAIN expandedCommentIds /\ expandedCommentIds[c.id]
        THEN BodyShown(c) = c.body
        ELSE IsCollapsedViewOf(BodyShown(c), c.body)

\* C17: a comment with a body of more than 120 characters is drawn, after
\* two clicks on it
C17_Witness ==
    \E c \in CommentsShown :
        /\ Len(c.body) > 120
        /\ c.id \in DOMAIN expandedCommentIds
        /\ ~expandedCommentIds[c.id]

\* C18: with status failed the items are empty, and so are the filtered
\* list and the groups, and "all" is the only option; typing, selecting and
\* clicking in that status leave status, items and error as they are.
C18_FailedIsEmpty ==
    /\ [](status = "failed" =>
            /\ items = << >>
            /\ Live(Observed) =>
                   /\ filtered = << >>
                   /\ DOMAIN grouped.map = {}
                   /\ domains = << ALL >>)
    /\ [][ (status = "failed" /\ << localVars, toggles >>' # << localVars, toggles >>)
              => UNCHANGED << status, items, error >> ]_vars

\* C19: the domain selected is one of the options offered, which are
\* derived from the items of the store.
C19_FilterIsOffered ==
    Live(Observed) =>
        /\ domains = DomainsOf(items)
        /\ \E i \in DOMAIN domains : domains[i] = domainFilter

====
